---- MODULE Spec2Model ----
(***************************************************************************)
(* The chat route handler (POST, fetchGitHubTools), the message adapter    *)
(* (convertVercelMessageToLangChainMessage and its inverse) and the tool   *)
(* response renderer (IntermediateStep) of langchain-nextjs-template.      *)
(*                                                                         *)
(* Strings are sequences of UTF-16 code units (integers), as in the        *)
(* JavaScript runtime.  JSON texts are sequences of lexemes.  JavaScript   *)
(* values are records [t, v] tagged with their type.                       *)
(***************************************************************************)
EXTENDS Integers, Sequences, FiniteSets, TLC

\* Longest string (in code units) the inputs carry.
MaxStr == 2
\* Number of requests in flight at once in the concurrent specification.
NConc == 2

(***************************************************************************)
(* Strings                                                                 *)
(***************************************************************************)
\* "a", the high surrogate D83D and the low surrogate DE00.
CodeUnits == {97, 55357, 56832}

Strs(n) == UNION {[1..k -> CodeUnits] : k \in 0..n}

IsHigh(c) == c >= 55296 /\ c <= 56319
IsLow(c) == c >= 56320 /\ c <= 57343

\* Whether s holds no unpaired surrogate.
RECURSIVE WellFormed(_)
WellFormed(s) ==
  IF s = <<>> THEN TRUE
  ELSE IF IsHigh(s[1]) THEN Len(s) >= 2 /\ IsLow(s[2]) /\ WellFormed(SubSeq(s, 3, Len(s)))
  ELSE IF IsLow(s[1]) THEN FALSE
  ELSE WellFormed(Tail(s))

\* The code points of s as a USVString: an unpaired surrogate becomes U+FFFD.
RECURSIVE ToCodePoints(_)
ToCodePoints(s) ==
  IF s = <<>> THEN <<>>
  ELSE IF IsHigh(s[1]) /\ Len(s) >= 2 /\ IsLow(s[2])
    THEN <<65536 + (s[1] - 55296) * 1024 + (s[2] - 56320)>> \o ToCodePoints(SubSeq(s, 3, Len(s)))
  ELSE IF IsHigh(s[1]) \/ IsLow(s[1]) THEN <<65533>> \o ToCodePoints(Tail(s))
  ELSE <<s[1]>> \o ToCodePoints(Tail(s))

UTF8(cp) ==
  IF cp < 128 THEN <<cp>>
  ELSE IF cp < 2048 THEN <<192 + cp \div 64, 128 + (cp % 64)>>
  ELSE IF cp < 65536 THEN <<224 + cp \div 4096, 128 + ((cp \div 64) % 64), 128 + (cp % 64)>>
  ELSE <<240 + cp \div 262144, 128 + ((cp \div 4096) % 64), 128 + ((cp \div 64) % 64), 128 + (cp % 64)>>

RECURSIVE EncodePoints(_)
EncodePoints(cps) ==
  IF cps = <<>> THEN <<>> ELSE UTF8(cps[1]) \o EncodePoints(Tail(cps))

\* TextEncoder.encode on a string: the UTF-8 bytes of its USVString.
EncodeUTF8(s) == EncodePoints(ToCodePoints(s))

\* The code units of one code point.
FromCodePoint(cp) ==
  IF cp < 65536 THEN <<cp>>
  ELSE <<55296 + (cp - 65536) \div 1024, 56320 + ((cp - 65536) % 1024)>>

\* TextDecoder.decode: the string a UTF-8 byte sequence stands for.
RECURSIVE DecodeUTF8(_)
DecodeUTF8(b) ==
  IF b = <<>> THEN <<>>
  ELSE IF b[1] < 128 THEN <<b[1]>> \o DecodeUTF8(Tail(b))
  ELSE IF b[1] >= 192 /\ b[1] < 224 /\ Len(b) >= 2
    THEN FromCodePoint((b[1] - 192) * 64 + (b[2] - 128)) \o DecodeUTF8(SubSeq(b, 3, Len(b)))
  ELSE IF b[1] >= 224 /\ b[1] < 240 /\ Len(b) >= 3
    THEN FromCodePoint((b[1] - 224) * 4096 + (b[2] - 128) * 64 + (b[3] - 128))
         \o DecodeUTF8(SubSeq(b, 4, Len(b)))
  ELSE IF b[1] >= 240 /\ b[1] < 248 /\ Len(b) >= 4
    THEN FromCodePoint((b[1] - 240) * 262144 + (b[2] - 128) * 4096 + (b[3] - 128) * 64 + (b[4] - 128))
         \o DecodeUTF8(SubSeq(b, 5, Len(b)))
  ELSE <<65533>> \o DecodeUTF8(Tail(b))

HexDigit(d) == IF d < 10 THEN 48 + d ELSE 55 + d
HexDigitLower(d) == IF d < 10 THEN 48 + d ELSE 87 + d

\* Characters encodeURIComponent leaves as they are: A-Z a-z 0-9 - _ . ! ~ * ' ( )
Unreserved(c) ==
  \/ c >= 65 /\ c <= 90
  \/ c >= 97 /\ c <= 122
  \/ c >= 48 /\ c <= 57
  \/ c \in {45, 95, 46, 33, 126, 42, 39, 40, 41}

RECURSIVE PercentBytes(_)
PercentBytes(b) ==
  IF b = <<>> THEN <<>>
  ELSE <<37, HexDigit(b[1] \div 16), HexDigit(b[1] % 16)>> \o PercentBytes(Tail(b))

RECURSIVE PercentPoints(_)
PercentPoints(cps) ==
  IF cps = <<>> THEN <<>>
  ELSE (IF Unreserved(cps[1]) THEN <<cps[1]>> ELSE PercentBytes(UTF8(cps[1])))
       \o PercentPoints(Tail(cps))

\* encodeURIComponent: throws URIError on an unpaired surrogate.
encodeURIComponent(s) ==
  IF WellFormed(s) THEN [ok |-> TRUE, val |-> PercentPoints(ToCodePoints(s))]
  ELSE [ok |-> FALSE, val |-> <<>>]

(***************************************************************************)
(* JavaScript values                                                       *)
(***************************************************************************)
JUndef == [t |-> "undef", v |-> 0]
JNull == [t |-> "null", v |-> 0]
JBool(b) == [t |-> "bool", v |-> b]
JNum(n) == [t |-> "num", v |-> n]
JStr(s) == [t |-> "str", v |-> s]
\* An object: its properties in insertion order, each [key, val].
JObj(props) == [t |-> "obj", v |-> props]
JArr(elems) == [t |-> "arr", v |-> elems]

Prop(k, x) == [key |-> k, val |-> x]

K_user_input == <<117, 115, 101, 114, 95, 105, 110, 112, 117, 116>>
K_show_intermediate_steps ==
  <<115, 104, 111, 119, 95, 105, 110, 116, 101, 114, 109, 101, 100, 105, 97, 116, 101, 95,
    115, 116, 101, 112, 115>>
K_response == <<114, 101, 115, 112, 111, 110, 115, 101>>
K_output == <<111, 117, 116, 112, 117, 116>>
K_tool_name == <<116, 111, 111, 108, 95, 110, 97, 109, 101>>
K_tool_input == <<116, 111, 111, 108, 95, 105, 110, 112, 117, 116>>
K_tool_output == <<116, 111, 111, 108, 95, 111, 117, 116, 112, 117, 116>>

S_null == <<110, 117, 108, 108>>
S_true == <<116, 114, 117, 101>>
S_false == <<102, 97, 108, 115, 101>>
S_undefined == <<117, 110, 100, 101, 102, 105, 110, 101, 100>>
S_object == <<91, 111, 98, 106, 101, 99, 116, 32, 79, 98, 106, 101, 99, 116, 93>>

\* JavaScript truthiness, as `!x` and `if (x)` decide it.
Truthy(x) ==
  CASE x.t \in {"undef", "null"} -> FALSE
    [] x.t = "bool" -> x.v
    [] x.t = "num" -> x.v # 0
    [] x.t = "str" -> x.v # <<>>
    [] OTHER -> TRUE

HasKey(props, k) == \E i \in 1..Len(props) : props[i].key = k
Lookup(props, k) == props[CHOOSE i \in 1..Len(props) : props[i].key = k].val

\* Property read x.k: a TypeError on null and undefined, undefined when absent.
Get(x, k) ==
  IF x.t \in {"undef", "null"} THEN [ok |-> FALSE, val |-> JUndef]
  ELSE IF x.t = "obj" /\ HasKey(x.v, k) THEN [ok |-> TRUE, val |-> Lookup(x.v, k)]
  ELSE [ok |-> TRUE, val |-> JUndef]

\* One decimal digit per number: the numbers of the model are 0..9.
NumText(n) == <<48 + n>>

\* JSToString, as string conversion of an argument does it.
RECURSIVE JSToString(_), JoinElems(_)
JSToString(x) ==
  CASE x.t = "undef" -> S_undefined
    [] x.t = "null" -> S_null
    [] x.t = "bool" -> IF x.v THEN S_true ELSE S_false
    [] x.t = "num" -> NumText(x.v)
    [] x.t = "str" -> x.v
    [] x.t = "arr" -> JoinElems(x.v)
    [] OTHER -> S_object
JoinElems(es) ==
  IF es = <<>> THEN <<>>
  ELSE (IF es[1].t \in {"undef", "null"} THEN <<>> ELSE JSToString(es[1]))
       \o (IF Len(es) = 1 THEN <<>> ELSE <<44>> \o JoinElems(Tail(es)))

(***************************************************************************)
(* JSON texts: sequences of lexemes [k, s]                                  *)
(***************************************************************************)
Punct(c) == [k |-> c, s |-> <<>>]
TNum(n) == [k |-> "num", s |-> <<n>>]
TStr(s) == [k |-> "str", s |-> s]

\* obj with property k set to x: a repeated key keeps its place, the last value wins.
PutProp(props, k, x) ==
  IF HasKey(props, k)
  THEN [i \in 1..Len(props) |-> IF props[i].key = k THEN Prop(k, x) ELSE props[i]]
  ELSE Append(props, Prop(k, x))

ParseFail == [ok |-> FALSE, val |-> JUndef, rest |-> <<>>]
Parsed(x, r) == [ok |-> TRUE, val |-> x, rest |-> r]

RECURSIVE ParseValue(_), ParseMembers(_, _), ParseElements(_, _)
ParseValue(ts) ==
  IF ts = <<>> THEN ParseFail
  ELSE LET h == ts[1]
           r == Tail(ts)
       IN CASE h.k = "null" -> Parsed(JNull, r)
            [] h.k = "true" -> Parsed(JBool(TRUE), r)
            [] h.k = "false" -> Parsed(JBool(FALSE), r)
            [] h.k = "num" -> Parsed(JNum(h.s[1]), r)
            [] h.k = "str" -> Parsed(JStr(h.s), r)
            [] h.k = "{" -> IF r # <<>> /\ r[1].k = "}" THEN Parsed(JObj(<<>>), Tail(r))
                            ELSE ParseMembers(r, <<>>)
            [] h.k = "[" -> IF r # <<>> /\ r[1].k = "]" THEN Parsed(JArr(<<>>), Tail(r))
                            ELSE ParseElements(r, <<>>)
            [] OTHER -> ParseFail
ParseMembers(ts, acc) ==
  IF Len(ts) >= 2 /\ ts[1].k = "str" /\ ts[2].k = ":"
  THEN LET p == ParseValue(SubSeq(ts, 3, Len(ts)))
       IN IF ~p.ok \/ p.rest = <<>> THEN ParseFail
          ELSE IF p.rest[1].k = "}" THEN Parsed(JObj(PutProp(acc, ts[1].s, p.val)), Tail(p.rest))
          ELSE IF p.rest[1].k = "," THEN ParseMembers(Tail(p.rest), PutProp(acc, ts[1].s, p.val))
          ELSE ParseFail
  ELSE ParseFail
ParseElements(ts, acc) ==
  LET p == ParseValue(ts)
  IN IF ~p.ok \/ p.rest = <<>> THEN ParseFail
     ELSE IF p.rest[1].k = "]" THEN Parsed(JArr(Append(acc, p.val)), Tail(p.rest))
     ELSE IF p.rest[1].k = "," THEN ParseElements(Tail(p.rest), Append(acc, p.val))
     ELSE ParseFail

\* JSON.parse: the value of a text, or a SyntaxError (ok = FALSE).
JSONParse(ts) ==
  LET p == ParseValue(ts)
  IN IF p.ok /\ p.rest = <<>> THEN [ok |-> TRUE, val |-> p.val]
     ELSE [ok |-> FALSE, val |-> JUndef]

\* The JSON text a sender writes for a value.
RECURSIVE Lexemes(_), MemberLexemes(_), ElemLexemes(_)
Lexemes(x) ==
  CASE x.t = "null" -> <<Punct("null")>>
    [] x.t = "bool" -> <<Punct(IF x.v THEN "true" ELSE "false")>>
    [] x.t = "num" -> <<TNum(x.v)>>
    [] x.t = "str" -> <<TStr(x.v)>>
    [] x.t = "obj" -> <<Punct("{")>> \o MemberLexemes(x.v) \o <<Punct("}")>>
    [] x.t = "arr" -> <<Punct("[")>> \o ElemLexemes(x.v) \o <<Punct("]")>>
MemberLexemes(props) ==
  IF props = <<>> THEN <<>>
  ELSE <<TStr(props[1].key), Punct(":")>> \o Lexemes(props[1].val)
       \o (IF Len(props) = 1 THEN <<>> ELSE <<Punct(",")>> \o MemberLexemes(Tail(props)))
ElemLexemes(es) ==
  IF es = <<>> THEN <<>>
  ELSE Lexemes(es[1]) \o (IF Len(es) = 1 THEN <<>> ELSE <<Punct(",")>> \o ElemLexemes(Tail(es)))

(***************************************************************************)
(* JSON.stringify(value, null, indent)                                      *)
(***************************************************************************)
Spaces(n) == [i \in 1..n |-> 32]

\* \uXXXX, in lower-case hexadecimal digits.
UnicodeEscape(c) ==
  <<92, 117, HexDigitLower(c \div 4096), HexDigitLower((c \div 256) % 16),
    HexDigitLower((c \div 16) % 16), HexDigitLower(c % 16)>>

RECURSIVE QuoteChars(_)
QuoteChars(s) ==
  IF s = <<>> THEN <<>>
  ELSE IF s[1] \in {34, 92} THEN <<92, s[1]>> \o QuoteChars(Tail(s))
  ELSE IF IsHigh(s[1]) /\ Len(s) >= 2 /\ IsLow(s[2])
    THEN <<s[1], s[2]>> \o QuoteChars(SubSeq(s, 3, Len(s)))
  ELSE IF IsHigh(s[1]) \/ IsLow(s[1]) \/ s[1] < 32 THEN UnicodeEscape(s[1]) \o QuoteChars(Tail(s))
  ELSE <<s[1]>> \o QuoteChars(Tail(s))

Quote(s) == <<34>> \o QuoteChars(s) \o <<34>>

\* The line break before an item at depth cur (nothing when indent is 0).
Break(indent, cur) == IF indent = 0 THEN <<>> ELSE <<10>> \o Spaces(cur)

RECURSIVE Ser(_, _, _), SerMembers(_, _, _), SerElems(_, _, _)
Ser(x, indent, cur) ==
  CASE x.t = "null" -> S_null
    [] x.t = "bool" -> IF x.v THEN S_true ELSE S_false
    [] x.t = "num" -> NumText(x.v)
    [] x.t = "str" -> Quote(x.v)
    [] x.t = "obj" -> IF x.v = <<>> THEN <<123, 125>>
                      ELSE <<123>> \o SerMembers(x.v, indent, cur + indent)
                           \o Break(indent, cur) \o <<125>>
    [] x.t = "arr" -> IF x.v = <<>> THEN <<91, 93>>
                      ELSE <<91>> \o SerElems(x.v, indent, cur + indent)
                           \o Break(indent, cur) \o <<93>>
SerMembers(props, indent, cur) ==
  IF props = <<>> THEN <<>>
  ELSE Break(indent, cur) \o Quote(props[1].key) \o <<58>>
       \o (IF indent = 0 THEN <<>> ELSE <<32>>) \o Ser(props[1].val, indent, cur)
       \o (IF Len(props) = 1 THEN <<>> ELSE <<44>> \o SerMembers(Tail(props), indent, cur))
SerElems(es, indent, cur) ==
  IF es = <<>> THEN <<>>
  ELSE Break(indent, cur) \o Ser(es[1], indent, cur)
       \o (IF Len(es) = 1 THEN <<>> ELSE <<44>> \o SerElems(Tail(es), indent, cur))

\* JSON.stringify(x, null, indent): undefined for undefined, the text otherwise.
JSONStringify(x, indent) ==
  IF x.t = "undef" THEN JUndef ELSE JStr(Ser(x, indent, 0))

(***************************************************************************)
(* Message adapter                                                          *)
(***************************************************************************)
\* The roles of a Vercel chat message.
VercelRoles == {"system", "user", "assistant", "function", "data", "tool"}

\* A Vercel message: `fields` are the keys the object carries.
VercelMessage(role, content, tool_calls, fields) ==
  [role |-> role, content |-> content, tool_calls |-> tool_calls, fields |-> fields]

\* new HumanMessage(content): type tag "human".
HumanMessage(content) ==
  [type |-> "human", content |-> content, role |-> "", tool_calls |-> JUndef]
\* new AIMessage(content): type tag "ai", an empty tool-call list.
AIMessage(content) ==
  [type |-> "ai", content |-> content, role |-> "", tool_calls |-> JArr(<<>>)]
\* new ChatMessage(content, role): type tag "generic", the role kept in .role.
ChatMessage(content, role) ==
  [type |-> "generic", content |-> content, role |-> role, tool_calls |-> JUndef]

\* message.getType()
getType(message) == message.type

convertVercelMessageToLangChainMessage(message) ==
  IF message.role = "user" THEN HumanMessage(message.content)
  ELSE IF message.role = "assistant" THEN AIMessage(message.content)
  ELSE ChatMessage(message.content, message.role)

convertLangChainMessageToVercelMessage(message) ==
  IF getType(message) = "human"
  THEN VercelMessage("user", message.content, JUndef, {"content", "role"})
  ELSE IF getType(message) = "ai"
  THEN VercelMessage("assistant", message.content, message.tool_calls,
                     {"content", "role", "tool_calls"})
  ELSE VercelMessage(getType(message), message.content, JUndef, {"content", "role"})

(***************************************************************************)
(* Tool response renderer                                                   *)
(***************************************************************************)
\* What IntermediateStep returns: null, or the element with its three slots.
RenderNull(logged) ==
  [kind |-> "null", logged |-> logged, name |-> JUndef, input |-> JUndef, output |-> JUndef]
RenderThrow ==
  [kind |-> "throw", logged |-> FALSE, name |-> JUndef, input |-> JUndef, output |-> JUndef]
RenderElement(name, input, output) ==
  [kind |-> "element", logged |-> FALSE, name |-> name, input |-> input, output |-> output]

\* JSON.stringify(toolData.tool_input, null, 2)
InputText(toolData) == JSONStringify(Get(toolData, K_tool_input).val, 2)

\* A faulty variant: the output is stringified even when it is a string.
OutputTextQuoted(toolData) == JSONStringify(Get(toolData, K_tool_output).val, 2)
\* typeof tool_output === 'string' ? tool_output : JSON.stringify(tool_output, null, 2)
OutputText(toolData) ==
  LET tool_output == Get(toolData, K_tool_output).val
  IN IF tool_output.t = "str" THEN tool_output ELSE JSONStringify(tool_output, 2)

\* A faulty variant: only the SyntaxError of JSON.parse is caught.
RenderCatchSyntaxOnly(error) ==
  IF error = "SyntaxError" THEN RenderNull(TRUE) ELSE RenderThrow
\* catch (error) { console.error(...); return null; }
RenderCatch(error) == RenderNull(TRUE)

IntermediateStep(message) ==
  LET parsed == JSONParse(message.content)
      toolData == parsed.val
  IN IF ~parsed.ok THEN RenderCatch("SyntaxError")
     ELSE IF ~Get(toolData, K_tool_name).ok THEN RenderCatch("TypeError")
     ELSE RenderElement(Get(toolData, K_tool_name).val, InputText(toolData),
                        OutputText(toolData))

(***************************************************************************)
(* Chat route handler: values                                               *)
(***************************************************************************)
\* "Failed to fetch GitHub Toolkit"
M_FailedToFetch ==
  <<70, 97, 105, 108, 101, 100, 32, 116, 111, 32, 102, 101, 116, 99, 104, 32, 71, 105,
    116, 72, 117, 98, 32, 84, 111, 111, 108, 107, 105, 116>>
\* "Unexpected token in JSON"
M_SyntaxError ==
  <<85, 110, 101, 120, 112, 101, 99, 116, 101, 100, 32, 116, 111, 107, 101, 110, 32, 105,
    110, 32, 74, 83, 79, 78>>
\* "Cannot read properties of undefined"
M_TypeError ==
  <<67, 97, 110, 110, 111, 116, 32, 114, 101, 97, 100, 32, 112, 114, 111, 112, 101, 114,
    116, 105, 101, 115, 32, 111, 102, 32, 117, 110, 100, 101, 102, 105, 110, 101, 100>>
\* "URI malformed"
M_URIError == <<85, 82, 73, 32, 109, 97, 108, 102, 111, 114, 109, 101, 100>>
\* "fetch failed"
M_FetchFailed == <<102, 101, 116, 99, 104, 32, 102, 97, 105, 108, 101, 100>>

K_messages == <<109, 101, 115, 115, 97, 103, 101, 115>>
K_content == <<99, 111, 110, 116, 101, 110, 116>>
K_role == <<114, 111, 108, 101>>
K_error == <<101, 114, 114, 111, 114>>
S_assistant == <<97, 115, 115, 105, 115, 116, 97, 110, 116>>

\* An Error object; none of the errors raised here carries a status.
JSError(name, message) == [name |-> name, message |-> message, status |-> JUndef]
NoError == JSError("", <<>>)

NoResponse ==
  [kind |-> "none", status |-> 0, body |-> JUndef, chunks |-> <<>>, closed |-> FALSE]
\* The handler's promise rejects: no response of the handler's making.
Uncaught ==
  [kind |-> "uncaught", status |-> 0, body |-> JUndef, chunks |-> <<>>, closed |-> FALSE]

\* What JSON serialisation keeps of a body: an undefined property is dropped, an
\* undefined element becomes null.
RECURSIVE Wire(_), WireProps(_), WireElems(_)
Wire(x) ==
  CASE x.t = "obj" -> JObj(WireProps(x.v))
    [] x.t = "arr" -> JArr(WireElems(x.v))
    [] OTHER -> x
WireProps(props) ==
  IF props = <<>> THEN <<>>
  ELSE (IF props[1].val.t = "undef" THEN <<>>
        ELSE <<Prop(props[1].key, Wire(props[1].val))>>) \o WireProps(Tail(props))
WireElems(es) ==
  IF es = <<>> THEN <<>>
  ELSE <<IF es[1].t = "undef" THEN JNull ELSE Wire(es[1])>> \o WireElems(Tail(es))

\* NextResponse.json(body, { status })
NextResponseJson(body, status) ==
  [kind |-> "json", status |-> status, body |-> Wire(body), chunks |-> <<>>,
   closed |-> FALSE]

\* A ReadableStream's queue, as its controller fills it.
EmptyStream == [chunks |-> <<>>, closed |-> FALSE]
enqueue(stream, chunk) == [stream EXCEPT !.chunks = Append(@, chunk)]
close(stream) == [stream EXCEPT !.closed = TRUE]

\* textEncoder.encode(x): the argument defaults to "" when undefined.
TextEncoderEncode(x) == IF x.t = "undef" THEN <<>> ELSE EncodeUTF8(JSToString(x))

\* A faulty variant: the chunk is enqueued twice.
startTwice(responseContent) ==
  close(enqueue(enqueue(EmptyStream, TextEncoderEncode(responseContent)),
                TextEncoderEncode(responseContent)))
\* start(controller) { controller.enqueue(...); controller.close(); }
start(responseContent) ==
  close(enqueue(EmptyStream, TextEncoderEncode(responseContent)))

\* new StreamingTextResponse(stream): status 200, the stream as the body.
StreamingTextResponse(stream) ==
  [kind |-> "stream", status |-> 200, body |-> JUndef, chunks |-> stream.chunks,
   closed |-> stream.closed]

\* The completion of a stretch of the try block: a thrown error or a response.
Throw(e) == [threw |-> TRUE, err |-> e, resp |-> NoResponse]
Normal(resp) == [threw |-> FALSE, err |-> NoError, resp |-> resp]

\* A faulty variant: a TypeError leaves the handler.
CatchTypeErrorEscapes(e) ==
  IF e.name = "TypeError" THEN Uncaught
  ELSE NextResponseJson(JObj(<<Prop(K_error, JStr(e.message))>>), 500)
\* A faulty variant: the upstream failure is answered with 502.
CatchUpstreamStatus(e) ==
  NextResponseJson(JObj(<<Prop(K_error, JStr(e.message))>>),
                   IF e.status.t = "num" THEN e.status.v
                   ELSE IF e.message = M_FailedToFetch THEN 502 ELSE 500)
\* catch (e) { return NextResponse.json({ error: e.message }, { status: e.status ?? 500 }) }
Catch(e) ==
  IF e.status.t \in {"undef", "null"}
  THEN NextResponseJson(JObj(<<Prop(K_error, JStr(e.message))>>), 500)
  ELSE IF e.status.t = "num" /\ e.status.v >= 200 /\ e.status.v <= 599
  THEN NextResponseJson(JObj(<<Prop(K_error, JStr(e.message))>>), e.status.v)
  ELSE Uncaught

\* response.ok
ok(status) == status >= 200 /\ status <= 299

\* A faulty variant: the message content is `response`, not `response.output`.
ReshapeContentOnly(toolsResponse, returnIntermediateSteps) ==
  LET responseContent == Get(toolsResponse, K_response)
  IN IF ~responseContent.ok THEN Throw(JSError("TypeError", M_TypeError))
     ELSE IF ~Truthy(returnIntermediateSteps)
     THEN Normal(StreamingTextResponse(start(responseContent.val)))
     ELSE Normal(NextResponseJson(
            JObj(<<Prop(K_messages,
                        JArr(<<JObj(<<Prop(K_content, responseContent.val),
                                      Prop(K_role, JStr(S_assistant))>>)>>))>>), 200))
\* From `toolsResponse.response` to the returned response.
Reshape(toolsResponse, returnIntermediateSteps) ==
  LET responseContent == Get(toolsResponse, K_response)
  IN IF ~responseContent.ok THEN Throw(JSError("TypeError", M_TypeError))
     ELSE IF ~Truthy(returnIntermediateSteps)
     THEN Normal(StreamingTextResponse(start(responseContent.val)))
     ELSE LET output == Get(responseContent.val, K_output)
          IN IF ~output.ok THEN Throw(JSError("TypeError", M_TypeError))
             ELSE Normal(NextResponseJson(
                    JObj(<<Prop(K_messages,
                                JArr(<<JObj(<<Prop(K_content, output.val),
                                              Prop(K_role, JStr(S_assistant))>>)>>))>>), 200))

\* The start of POST, up to the call of fetch: the locals, and the URL's query
\* value or the error thrown before the call.
RequestStage(text) ==
  LET parsed == JSONParse(text)
      body == parsed.val
      userInput == Get(body, K_user_input)
      returnIntermediateSteps == Get(body, K_show_intermediate_steps)
      query == encodeURIComponent(JSToString(userInput.val))
  IN IF ~parsed.ok
     THEN [c |-> Throw(JSError("SyntaxError", M_SyntaxError)), userInput |-> JUndef,
           returnIntermediateSteps |-> JUndef, query |-> <<>>]
     ELSE IF ~userInput.ok
     THEN [c |-> Throw(JSError("TypeError", M_TypeError)), userInput |-> JUndef,
           returnIntermediateSteps |-> JUndef, query |-> <<>>]
     ELSE IF ~query.ok
     THEN [c |-> Throw(JSError("URIError", M_URIError)), userInput |-> userInput.val,
           returnIntermediateSteps |-> returnIntermediateSteps.val, query |-> <<>>]
     ELSE [c |-> Normal(NoResponse), userInput |-> userInput.val,
           returnIntermediateSteps |-> returnIntermediateSteps.val, query |-> query.val]

\* `return response.json()` and the rest of POST's try block.
BodyStage(call, returnIntermediateSteps) ==
  LET toolsResponse == JSONParse(call.text)
  IN IF call.st # "body" THEN Throw(JSError("TypeError", M_FetchFailed))
     ELSE IF ~toolsResponse.ok THEN Throw(JSError("SyntaxError", M_SyntaxError))
     ELSE Reshape(toolsResponse.val, returnIntermediateSteps)

(***************************************************************************)
(* State                                                                    *)
(***************************************************************************)
VARIABLES
  pc,       \* per request: "idle", "readBody", "awaitFetch", "awaitJson", "done"
  reqBody,  \* per request: the text of the request body
  locals,   \* per request: userInput and returnIntermediateSteps
  net,      \* per request: the outbound call, [st, status, text, query]
  calls,    \* per request: outbound calls issued so far
  lateCall, \* per request: whether a call was issued after the response
  raised,   \* per request: the name of the error the try block raised, "" if none
  result,   \* per request: the response returned
  nresp,    \* per request: responses returned so far
  aphase, vmsg, lcmsg, vout,   \* the adapter: a message, its conversion, and back
  rphase, message, rendered    \* the renderer: a message and what is rendered for it

hvars == <<pc, reqBody, locals, net, calls, lateCall, raised, result, nresp>>
avars == <<aphase, vmsg, lcmsg, vout>>
rvars == <<rphase, message, rendered>>
vars == <<hvars, avars, rvars>>

AllReqs == 1..NConc
\* The sequential specification follows one request.
Reqs == {1}
ConcReqs == 1..NConc

NoLocals == [userInput |-> JUndef, returnIntermediateSteps |-> JUndef]
NoCall == [st |-> "none", status |-> 0, text |-> <<>>, query |-> <<>>]

(***************************************************************************)
(* Inputs                                                                   *)
(***************************************************************************)
Absent == JUndef
\* show_intermediate_steps: absent, null, false, true, 0, 1, "", "a", {}
Flags ==
  {Absent, JNull, JBool(FALSE), JBool(TRUE), JNum(0), JNum(1), JStr(<<>>), JStr(<<97>>),
   JObj(<<>>)}
UserInputs == {Absent} \cup {JStr(s) : s \in Strs(MaxStr)}

\* An object with the given properties, the absent ones left out.
ObjectOf(props) == JObj(WireProps(props))

BodyValues ==
  {JNull, JNum(1)}
  \cup {ObjectOf(<<Prop(K_user_input, u), Prop(K_show_intermediate_steps, f)>>) :
          u \in UserInputs, f \in Flags}
\* Texts that are no JSON: the empty body and a cut-off object.
Malformed == {<<>>, <<Punct("{"), TStr(K_response)>>}
Bodies == Malformed \cup {Lexemes(x) : x \in BodyValues}

ToolkitValues ==
  {JNull, JNum(1), JObj(<<>>)}
  \cup {JObj(<<Prop(K_response, x)>>) :
          x \in {JNull, JNum(1), JObj(<<>>), JArr(<<JNum(1)>>)}
                \cup {JStr(s) : s \in Strs(MaxStr)}
                \cup {JObj(<<Prop(K_output, JStr(s))>>) : s \in Strs(MaxStr)}}
ToolkitTexts == Malformed \cup {Lexemes(x) : x \in ToolkitValues}
Statuses == {200, 299, 300, 404}

SmallBodies ==
  {<<>>, Lexemes(JNull),
   Lexemes(JObj(<<Prop(K_user_input, JStr(<<97>>))>>)),
   Lexemes(JObj(<<Prop(K_user_input, JStr(<<97>>)),
                  Prop(K_show_intermediate_steps, JBool(TRUE))>>))}
SmallTexts ==
  {Lexemes(JObj(<<Prop(K_response, JStr(<<97>>))>>)),
   Lexemes(JObj(<<Prop(K_response, JObj(<<Prop(K_output, JStr(<<97>>))>>))>>))}
SmallStatuses == {200, 404}

(***************************************************************************)
(* Chat route handler: steps                                                *)
(***************************************************************************)
\* The handler returns: through the catch block when the try block threw.
Return(r, c) ==
  /\ result' = [result EXCEPT ![r] = IF c.threw THEN Catch(c.err) ELSE c.resp]
  /\ raised' = [raised EXCEPT ![r] = IF c.threw THEN c.err.name ELSE ""]
  /\ nresp' = [nresp EXCEPT ![r] = @ + 1]
  /\ pc' = [pc EXCEPT ![r] = "done"]

\* fetch(url): the outbound GET is sent.
fetch(r, query) ==
  /\ net' = [net EXCEPT ![r] = [st |-> "pending", status |-> 0, text |-> <<>>,
                                query |-> query]]
  /\ calls' = [calls EXCEPT ![r] = @ + 1]
  /\ lateCall' = [lateCall EXCEPT ![r] = @ \/ nresp[r] > 0]

\* A request arrives and POST is invoked; it suspends on req.json().
Post(r, text) ==
  /\ pc[r] = "idle"
  /\ pc' = [pc EXCEPT ![r] = "readBody"]
  /\ reqBody' = [reqBody EXCEPT ![r] = text]
  /\ UNCHANGED <<locals, net, calls, lateCall, raised, result, nresp, avars, rvars>>

\* req.json() settles: the locals are read and fetchGitHubTools sends its call.
ReadBody(r) ==
  /\ pc[r] = "readBody"
  /\ LET s == RequestStage(reqBody[r])
     IN /\ locals' = [locals EXCEPT ![r] = [userInput |-> s.userInput,
                        returnIntermediateSteps |-> s.returnIntermediateSteps]]
        /\ IF s.c.threw
           THEN Return(r, s.c) /\ UNCHANGED <<net, calls, lateCall>>
           ELSE /\ fetch(r, s.query)
                /\ pc' = [pc EXCEPT ![r] = "awaitFetch"]
                /\ UNCHANGED <<raised, result, nresp>>
  /\ UNCHANGED <<reqBody, avars, rvars>>

\* A faulty variant: the await gives up on a call that is still pending.
FetchSettledOrTimedOut(r) == TRUE
\* `await fetch(...)` resumes only once the call has settled.
FetchSettled(r) == net[r].st # "pending"

\* A faulty variant: a failed call is sent again, up to three calls.
FetchFailedRetry(r, e) ==
  IF calls[r] < 3
  THEN fetch(r, net[r].query) /\ UNCHANGED <<pc, raised, result, nresp>>
  ELSE Return(r, Throw(e)) /\ UNCHANGED <<net, calls, lateCall>>
\* The call failed, or `!response.ok`: the error goes to POST's catch block.
FetchFailed(r, e) == Return(r, Throw(e)) /\ UNCHANGED <<net, calls, lateCall>>

\* fetch settles: a rejection or a non-OK status throws, otherwise response.json()
\* is awaited.
FetchResolved(r) ==
  /\ pc[r] = "awaitFetch"
  /\ FetchSettled(r)
  /\ IF net[r].st \in {"failed", "pending"}
     THEN FetchFailed(r, JSError("TypeError", M_FetchFailed))
     ELSE IF ~ok(net[r].status)
     THEN FetchFailed(r, JSError("Error", M_FailedToFetch))
     ELSE /\ pc' = [pc EXCEPT ![r] = "awaitJson"]
          /\ UNCHANGED <<net, calls, lateCall, raised, result, nresp>>
  /\ UNCHANGED <<reqBody, locals, avars, rvars>>

\* A faulty variant: the flag is kept in one place for all invocations.
returnIntermediateStepsShared(r) == locals[1].returnIntermediateSteps
\* The local `returnIntermediateSteps` of invocation r.
returnIntermediateStepsOf(r) == locals[r].returnIntermediateSteps

\* response.json() settles: the body is reshaped into the response.
JsonResolved(r) ==
  /\ pc[r] = "awaitJson"
  /\ net[r].st \in {"body", "bodyfailed"}
  /\ Return(r, BodyStage(net[r], returnIntermediateStepsOf(r)))
  /\ UNCHANGED <<reqBody, locals, net, calls, lateCall, avars, rvars>>

(***************************************************************************)
(* The toolkit service and the network                                      *)
(***************************************************************************)
UpstreamHeaders(r, status) ==
  /\ net[r].st = "pending"
  /\ net' = [net EXCEPT ![r].st = "headers", ![r].status = status]
  /\ UNCHANGED <<pc, reqBody, locals, calls, lateCall, raised, result, nresp, avars, rvars>>

\* The connection fails before any response.
UpstreamFail(r) ==
  /\ net[r].st = "pending"
  /\ net' = [net EXCEPT ![r].st = "failed"]
  /\ UNCHANGED <<pc, reqBody, locals, calls, lateCall, raised, result, nresp, avars, rvars>>

UpstreamBody(r, text) ==
  /\ net[r].st = "headers"
  /\ net' = [net EXCEPT ![r].st = "body", ![r].text = text]
  /\ UNCHANGED <<pc, reqBody, locals, calls, lateCall, raised, result, nresp, avars, rvars>>

\* The connection fails while the body is in transit.
UpstreamBodyFail(r) ==
  /\ net[r].st = "headers"
  /\ net' = [net EXCEPT ![r].st = "bodyfailed"]
  /\ UNCHANGED <<pc, reqBody, locals, calls, lateCall, raised, result, nresp, avars, rvars>>

\* The steps of invocation r that the event loop runs.
HandlerStep(r) == ReadBody(r) \/ FetchResolved(r) \/ JsonResolved(r)

AdapterIdle ==
  /\ aphase = "off"
  /\ vmsg = VercelMessage("user", <<>>, JUndef, {"content", "role"})
  /\ lcmsg = HumanMessage(<<>>)
  /\ vout = VercelMessage("user", <<>>, JUndef, {"content", "role"})
RendererIdle ==
  /\ rphase = "off"
  /\ message = [content |-> <<>>]
  /\ rendered = RenderNull(FALSE)
HandlerIdle ==
  /\ pc = [r \in AllReqs |-> "idle"]
  /\ reqBody = [r \in AllReqs |-> <<>>]
  /\ locals = [r \in AllReqs |-> NoLocals]
  /\ net = [r \in AllReqs |-> NoCall]
  /\ calls = [r \in AllReqs |-> 0]
  /\ lateCall = [r \in AllReqs |-> FALSE]
  /\ raised = [r \in AllReqs |-> ""]
  /\ result = [r \in AllReqs |-> NoResponse]
  /\ nresp = [r \in AllReqs |-> 0]

Init == HandlerIdle /\ AdapterIdle /\ RendererIdle

Next ==
  \E r \in Reqs :
    \/ \E text \in Bodies : Post(r, text)
    \/ ReadBody(r)
    \/ FetchResolved(r)
    \/ JsonResolved(r)
    \/ \E status \in Statuses : UpstreamHeaders(r, status)
    \/ UpstreamFail(r)
    \/ \E text \in ToolkitTexts : UpstreamBody(r, text)
    \/ UpstreamBodyFail(r)

\* One request, every body and every toolkit outcome of the bounds.
Spec == Init /\ [][Next]_vars

NextConc ==
  \E r \in ConcReqs :
    \/ \E text \in SmallBodies : Post(r, text)
    \/ ReadBody(r)
    \/ FetchResolved(r)
    \/ JsonResolved(r)
    \/ \E status \in SmallStatuses : UpstreamHeaders(r, status)
    \/ UpstreamFail(r)
    \/ \E text \in SmallTexts : UpstreamBody(r, text)
    \/ UpstreamBodyFail(r)

\* NConc requests in flight at once, their steps interleaved in every order.
SpecConc == Init /\ [][NextConc]_vars

\* Invocation r has a continuation ready to run: the promise it awaits has settled.
HandlerReady(r) ==
  \/ pc[r] = "readBody"
  \/ pc[r] = "awaitFetch" /\ FetchSettled(r)
  \/ pc[r] = "awaitJson" /\ net[r].st \in {"body", "bodyfailed"}

\* The event loop resumes invocation r: under NextConc the steps of this shape are
\* the steps HandlerStep(r), and it is enabled exactly when one of them is.
Resume(r) ==
  /\ HandlerReady(r)
  /\ \E place \in {"awaitFetch", "awaitJson", "done"} \ {pc[r]} :
       pc' = [pc EXCEPT ![r] = place]

\* The event loop runs every continuation that is ready; nothing obliges the toolkit
\* service or the network to ever answer.
FairSpec == SpecConc /\ \A r \in ConcReqs : WF_pc(Resume(r))

(***************************************************************************)
(* The adapter and the renderer as specifications of their own              *)
(***************************************************************************)
ToolCallLists == {Absent, JArr(<<>>), JArr(<<JStr(<<97>>)>>)}
VercelMessages ==
  {VercelMessage(role, content, tool_calls,
                 IF tool_calls = Absent THEN {"content", "role"}
                 ELSE {"content", "role", "tool_calls"}) :
     role \in VercelRoles, content \in Strs(MaxStr), tool_calls \in ToolCallLists}

InitAdapter ==
  /\ HandlerIdle /\ RendererIdle
  /\ aphase = "vercel"
  /\ vmsg \in VercelMessages
  /\ lcmsg = HumanMessage(<<>>)
  /\ vout = VercelMessage("user", <<>>, JUndef, {"content", "role"})

ToLangChain ==
  /\ aphase = "vercel"
  /\ lcmsg' = convertVercelMessageToLangChainMessage(vmsg)
  /\ aphase' = "langchain"
  /\ UNCHANGED <<vmsg, vout, hvars, rvars>>

ToVercel ==
  /\ aphase = "langchain"
  /\ vout' = convertLangChainMessageToVercelMessage(lcmsg)
  /\ aphase' = "back"
  /\ UNCHANGED <<vmsg, lcmsg, hvars, rvars>>

NextAdapter == ToLangChain \/ ToVercel
SpecAdapter == InitAdapter /\ [][NextAdapter]_vars

\* {"q": "a"}
QObject == JObj(<<Prop(<<113>>, JStr(<<97>>))>>)
ToolNames == {Absent, JStr(<<97>>), JNum(1)}
ToolInputs == {Absent, JNull, JStr(<<97>>), QObject, JArr(<<JNum(1), QObject>>)}
ToolOutputs ==
  {Absent, JNull, JNum(1), QObject, JArr(<<JNum(1), QObject>>)}
  \cup {JStr(s) : s \in Strs(MaxStr)}
ToolValues ==
  {JNull, JNum(1), JBool(TRUE), JStr(<<97>>), JArr(<<>>), JArr(<<JNum(1)>>), JObj(<<>>)}
  \cup {ObjectOf(<<Prop(K_tool_name, n), Prop(K_tool_input, i), Prop(K_tool_output, o)>>) :
          n \in ToolNames, i \in ToolInputs, o \in ToolOutputs}

LexemeAlphabet ==
  {Punct(c) : c \in {"{", "}", "[", "]", ":", ",", "null", "true", "false"}}
  \cup {TNum(1), TStr(<<97>>)}
\* Every text of at most two lexemes: most of them are no JSON.
ShortTexts == UNION {[1..k -> LexemeAlphabet] : k \in 0..2}
\* Every way a tool record's text can be cut off.
CutTexts ==
  LET full == Lexemes(ObjectOf(<<Prop(K_tool_name, JStr(<<97>>)),
                                  Prop(K_tool_input, QObject),
                                  Prop(K_tool_output, JStr(<<97>>))>>))
  IN {SubSeq(full, 1, k) : k \in 0..(Len(full) - 1)}
Contents == {Lexemes(x) : x \in ToolValues} \cup ShortTexts \cup CutTexts

InitRender ==
  /\ HandlerIdle /\ AdapterIdle
  /\ rphase = "ready"
  /\ message \in {[content |-> c] : c \in Contents}
  /\ rendered = RenderNull(FALSE)

\* React calls IntermediateStep({ message }).
Render ==
  /\ rphase = "ready"
  /\ rendered' = IntermediateStep(message)
  /\ rphase' = "done"
  /\ UNCHANGED <<message, hvars, avars>>

NextRender == Render
SpecRender == InitRender /\ [][NextRender]_vars

(***************************************************************************)
(* What the claims speak of                                                 *)
(***************************************************************************)
RequestBody(r) == JSONParse(reqBody[r])
RequestFlag(r) == Get(RequestBody(r).val, K_show_intermediate_steps).val
RequestInput(r) == Get(RequestBody(r).val, K_user_input).val
ToolkitBody(r) == JSONParse(net[r].text)
ToolkitResponse(r) == Get(ToolkitBody(r).val, K_response).val

\* The call was made and answered with a success status and a JSON body.
CallSucceeded(r) ==
  calls[r] = 1 /\ net[r].st = "body" /\ ok(net[r].status) /\ ToolkitBody(r).ok

\* The code unit at i is a surrogate with no partner next to it.
LoneAt(s, i) ==
  \/ IsHigh(s[i]) /\ ~(i < Len(s) /\ IsLow(s[i + 1]))
  \/ IsLow(s[i]) /\ ~(i > 1 /\ IsHigh(s[i - 1]))
\* s with U+FFFD in the place of every unpaired surrogate.
Scrubbed(s) == [i \in 1..Len(s) |-> IF LoneAt(s, i) THEN 65533 ELSE s[i]]

ErrorBody(m) == JObj(<<Prop(K_error, JStr(m))>>)
IsErrorResponse(r) ==
  /\ result[r].kind = "json"
  /\ result[r].body.t = "obj"
  /\ Len(result[r].body.v) = 1
  /\ result[r].body.v[1].key = K_error
  /\ result[r].body.v[1].val.t = "str"

OneChunkStream(r) ==
  /\ result[r].kind = "stream"
  /\ result[r].status = 200
  /\ Len(result[r].chunks) = 1
  /\ result[r].closed

C1_Case(r) ==
  /\ pc[r] = "done"
  /\ RequestBody(r).ok
  /\ ~Truthy(RequestFlag(r))
  /\ CallSucceeded(r)
  /\ ToolkitResponse(r).t = "str"

\* C1 as stated: a parsed request with a falsy show_intermediate_steps whose toolkit
\* call succeeds with a string `response` gets a status-200 stream of exactly one
\* chunk, closed after it, and the chunk decodes to exactly that string.
C1_Original ==
  \A r \in AllReqs :
    C1_Case(r) =>
      OneChunkStream(r) /\ DecodeUTF8(result[r].chunks[1]) = ToolkitResponse(r).v

\* C1 as amended: the same, the chunk decoding to the `response` string with U+FFFD
\* in the place of every unpaired surrogate (so to the string itself when it has none).
C1_Amended ==
  \A r \in AllReqs :
    C1_Case(r) =>
      OneChunkStream(r) /\ DecodeUTF8(result[r].chunks[1]) = Scrubbed(ToolkitResponse(r).v)

C1_Witness ==
  \E r \in AllReqs :
    /\ C1_Case(r)
    /\ ToolkitResponse(r).v = <<97, 55357>>
    /\ result[r].chunks = <<(<<97, 239, 191, 189>>)>>

C2_Case(r) ==
  /\ pc[r] = "done"
  /\ RequestBody(r).ok
  /\ Truthy(RequestFlag(r))
  /\ CallSucceeded(r)

\* { messages: [{ content, role: "assistant" }] } as sent: no content key when the
\* content is undefined.
MessagesBody(content) ==
  JObj(<<Prop(K_messages,
              JArr(<<JObj((IF content.t = "undef" THEN <<>>
                           ELSE <<Prop(K_content, content)>>)
                          \o <<Prop(K_role, JStr(S_assistant))>>)>>))>>)

MessagesResponse(r) ==
  /\ result[r].kind = "json"
  /\ result[r].status = 200
  /\ result[r].body = MessagesBody(Get(ToolkitResponse(r), K_output).val)

\* C2 as stated: a parsed request with a truthy show_intermediate_steps whose toolkit
\* call succeeds gets status 200 and the body { messages: [{ content:
\* response.output, role: "assistant" }] }.
C2_Original == \A r \in AllReqs : C2_Case(r) => MessagesResponse(r)

\* C2 as amended: the same, for a toolkit body whose `response` field is present and
\* not null.
C2_Amended ==
  \A r \in AllReqs :
    C2_Case(r) /\ ToolkitResponse(r).t \notin {"undef", "null"} => MessagesResponse(r)

C2_Witness ==
  \E r \in AllReqs :
    /\ C2_Case(r)
    /\ ToolkitResponse(r) = JObj(<<Prop(K_output, JStr(<<97>>))>>)
    /\ result[r].body =
         JObj(<<Prop(K_messages,
                     JArr(<<JObj(<<Prop(K_content, JStr(<<97>>)),
                                   Prop(K_role, JStr(S_assistant))>>)>>))>>)

C3_Case(r) ==
  /\ pc[r] = "done"
  /\ calls[r] = 1
  /\ net[r].st \in {"headers", "body", "bodyfailed"}
  /\ ~ok(net[r].status)

\* C3: after a non-success status from the toolkit the response is the JSON body
\* { error: "Failed to fetch GitHub Toolkit" } with status 500, whatever the upstream
\* status and the flag; an error that carries a status would pass it on.
C3_Theorem ==
  /\ \A r \in AllReqs :
       C3_Case(r) =>
         /\ result[r].kind = "json"
         /\ result[r].body = ErrorBody(M_FailedToFetch)
         /\ result[r].status = 500
  /\ Catch([JSError("Error", M_FailedToFetch) EXCEPT !.status = JNum(404)]).status = 404

C3_Witness ==
  \E r \in AllReqs :
    /\ C3_Case(r)
    /\ net[r].status = 404
    /\ Truthy(RequestFlag(r))
    /\ result[r].status = 500

\* Every error the try block raises becomes { error: string } with status 500, and
\* the handler always returns a response of its own.
C4_Caught(r) ==
  /\ result[r].kind # "uncaught"
  /\ pc[r] = "done" => result[r].kind \in {"stream", "json"}
  /\ raised[r] # "" => IsErrorResponse(r) /\ result[r].status = 500

\* The toolkit answered with a JSON value, not null, that has no `response` or a
\* null one.
ResponseMissing(r) ==
  /\ pc[r] = "done"
  /\ CallSucceeded(r)
  /\ ToolkitBody(r).val.t # "null"
  /\ ToolkitResponse(r).t \in {"undef", "null"}

CallDue(r) ==
  /\ RequestBody(r).ok
  /\ RequestBody(r).val.t # "null"
  /\ \A i \in 1..Len(JSToString(RequestInput(r))) : ~LoneAt(JSToString(RequestInput(r)), i)

C8_NoRetry(r) ==
  /\ calls[r] <= 1
  /\ ~lateCall[r]
  /\ pc[r] \in {"idle", "readBody"} => calls[r] = 0
  /\ result[r].kind # "none" /\ calls[r] = 1 => pc[r] = "done"
  /\ pc[r] = "done" /\ calls[r] = 1
       /\ (net[r].st \in {"failed", "bodyfailed"} \/ ~ok(net[r].status)) =>
         IsErrorResponse(r)

\* C8 as stated: at most one outbound call per request and no retry; exactly one once
\* the body has parsed, none when it has not; none after the response.
C8_Original ==
  \A r \in AllReqs :
    /\ C8_NoRetry(r)
    /\ pc[r] \in {"awaitFetch", "awaitJson", "done"} => (calls[r] = 1 <=> RequestBody(r).ok)

\* C8 as amended: exactly one call when the body parses to a value other than null
\* whose user_input, as a string, has no unpaired surrogate; none otherwise.
C8_Amended ==
  \A r \in AllReqs :
    /\ C8_NoRetry(r)
    /\ pc[r] \in {"awaitFetch", "awaitJson", "done"} => (calls[r] = 1 <=> CallDue(r))

C8_Witness ==
  \E r \in AllReqs :
    /\ pc[r] = "done"
    /\ calls[r] = 1
    /\ net[r].st = "failed"
    /\ IsErrorResponse(r)

\* Two finished requests with the same body and the same toolkit outcome have the
\* same response.
C9_OwnInputs ==
  \A r1, r2 \in AllReqs :
    pc[r1] = "done" /\ pc[r2] = "done" /\ reqBody[r1] = reqBody[r2] /\ net[r1] = net[r2]
      => result[r1] = result[r2]

\* A step touches the state of one request only.
C9_OneRequest ==
  \E r \in AllReqs :
    \A q \in AllReqs \ {r} :
      /\ pc'[q] = pc[q] /\ reqBody'[q] = reqBody[q] /\ locals'[q] = locals[q]
      /\ net'[q] = net[q] /\ calls'[q] = calls[q] /\ raised'[q] = raised[q]
      /\ result'[q] = result[q] /\ nresp'[q] = nresp[q]

\* C9: under every interleaving of the requests' steps and of their toolkit calls'
\* completions, a request's response depends on its own body and its own call's
\* outcome only, and no step of one request changes the state of another.
C9_Theorem == []C9_OwnInputs /\ [][C9_OneRequest]_vars

C9_Witness ==
  /\ pc[1] = "awaitJson"
  /\ pc[2] = "done"
  /\ result[2].kind = "json"
  /\ result[2].status = 200
  /\ reqBody[1] # reqBody[2]

\* The outbound call has settled, as far as the handler waits for it.
Completed(r) ==
  \/ net[r].st \in {"failed", "body", "bodyfailed"}
  \/ net[r].st = "headers" /\ ~ok(net[r].status)
Responded(r) == result[r].kind # "none"

\* C10 as stated: a request whose body parses returns a response if and only if its
\* outbound call completes, and then exactly one.
C10_Original ==
  /\ [](\A r \in AllReqs :
          /\ RequestBody(r).ok /\ Responded(r) => Completed(r)
          /\ nresp[r] <= 1)
  /\ \A r \in AllReqs : (RequestBody(r).ok /\ Completed(r)) ~> Responded(r)

\* C10 as amended: a request that has sent its outbound call returns a response if
\* and only if the call completes, and then exactly one; while the call is pending
\* the request stays suspended.  (A request that fails before the call returns its
\* error response without one.)
C10_Amended ==
  /\ [](\A r \in AllReqs :
          /\ calls[r] >= 1 /\ Responded(r) => Completed(r)
          /\ nresp[r] <= 1
          /\ Responded(r) <=> nresp[r] = 1
          /\ net[r].st = "pending" => ~Responded(r) /\ pc[r] = "awaitFetch")
  /\ \A r \in AllReqs : Completed(r) ~> Responded(r)
  /\ \A r \in AllReqs : (pc[r] = "readBody" /\ ~CallDue(r)) ~> Responded(r)

C10_Witness ==
  /\ pc[1] = "awaitFetch"
  /\ net[1].st = "pending"
  /\ pc[2] = "done"
  /\ calls[2] = 1
  /\ result[2].kind = "stream"

\* C5: converting a Vercel message to a structured message and back keeps the role
\* and the content, and gives exactly { role: "user", content } for role "user".
C5_RoundTrip ==
  aphase = "back" =>
    /\ vout.role = vmsg.role
    /\ vout.content = vmsg.content
    /\ vmsg.role = "user" =>
         vout = VercelMessage("user", vmsg.content, JUndef, {"content", "role"})

\* C6: IntermediateStep never throws; for a content that is no JSON it logs and
\* returns null; it returns an element only for a content that is JSON.
C6_Theorem ==
  rphase = "done" =>
    /\ rendered.kind # "throw"
    /\ ~JSONParse(message.content).ok => rendered = RenderNull(TRUE)
    /\ message.content \in CutTexts => rendered = RenderNull(TRUE)
    /\ rendered.kind = "element" => JSONParse(message.content).ok

C6_Witness ==
  /\ rphase = "done"
  /\ message.content \in CutTexts
  /\ Len(message.content) >= 3
  /\ rendered.kind = "null"
  /\ rendered.logged

\* The element's slots: the tool name, the input pretty-printed with a 2-space indent,
\* the output raw when a string and pretty-printed otherwise.
SlotsShow(toolData) ==
  /\ rendered.kind = "element"
  /\ rendered.name = Get(toolData, K_tool_name).val
  /\ rendered.input = JSONStringify(Get(toolData, K_tool_input).val, 2)
  /\ rendered.output =
       IF Get(toolData, K_tool_output).val.t = "str" THEN Get(toolData, K_tool_output).val
       ELSE JSONStringify(Get(toolData, K_tool_output).val, 2)

\* C7 as stated: whenever the content parses as JSON, also to a value that is no
\* object, the result is the element showing name, input and output.
C7_Original ==
  rphase = "done" /\ JSONParse(message.content).ok =>
    SlotsShow(JSONParse(message.content).val)

\* C7 as amended: whenever the content parses to a value other than null the result
\* is that element (a slot is empty when the value has no such field); for the
\* content `null` nothing is rendered and the error is logged.
C7_Amended ==
  rphase = "done" /\ JSONParse(message.content).ok =>
    IF JSONParse(message.content).val = JNull THEN rendered = RenderNull(TRUE)
    ELSE SlotsShow(JSONParse(message.content).val)

\* {"tool_name":"a","tool_input":{"q":"a"},"tool_output":"a"}: the input is shown as
\* the three lines `{`, `  "q": "a"`, `}`.
C7_Witness ==
  /\ rphase = "done"
  /\ message.content =
       Lexemes(JObj(<<Prop(K_tool_name, JStr(<<97>>)), Prop(K_tool_input, QObject),
                      Prop(K_tool_output, JStr(<<97>>))>>))
  /\ rendered.name = JStr(<<97>>)
  /\ rendered.input = JStr(<<123, 10, 32, 32, 34, 113, 34, 58, 32, 34, 97, 34, 10, 125>>)
  /\ rendered.output = JStr(<<97>>)
====
